---- MODULE Spec2Model ----
(***************************************************************************)
(* caresync-chat-service: the chat endpoint's tool-orchestration loop      *)
(* (src/main.py) over the shared per-user message store, and the           *)
(* hospital search capability (src/tools.py).                              *)
(*                                                                         *)
(* Python lists are objects: user_messages maps a user id to a reference   *)
(* to a list, and a request's local `messages` is such a reference too.    *)
(* The heap maps list references to their contents.                        *)
(*                                                                         *)
(* Scheduling: requests run as parallel threads of one process (spec,      *)
(* section 5); one step is one statement the interpreter runs atomically   *)
(* (a list append, a dict store) or one purely local computation (a model  *)
(* invocation, a tool invocation) merged with the append that follows it.  *)
(***************************************************************************)
EXTENDS Integers, Sequences, FiniteSets, TLC

VARIABLES
    user_messages,  \* main.py:44  user id -> list reference (NoList: no key)
    heap,           \* list reference -> the list's contents
    allocated,      \* number of list objects created so far
    user_lock,      \* main.py:45  the request holding the lock (0: free)
    pc,             \* each request's position in chat_endpoint
    userId,         \* main.py:118 each request's user id
    messages,       \* main.py:123 each request's local list reference
    tool_calls,     \* main.py:131/147 the calls of the round in progress
    ti,             \* main.py:139 position of the for loop in tool_calls
    invoked,        \* number of model invocations the request has made
    handled,        \* call ids whose handler the request has invoked
    response        \* main.py:152 the MessageResponse returned (or none)

loopVars == <<user_messages, heap, allocated, user_lock, pc, userId, messages,
              tool_calls, ti, invoked, handled, response>>

\* hospital_search_tool's locals (tools.py:68-205), the stage it has reached,
\* and what the backends were asked so far
VARIABLES s_pc, test_types, cost_ranges, hospital_types, cat, ci,
          hospitals_by, hospital_sets, hospitals, icu_min, zone_id,
          filtered, fi, top_n, filtered_sorted, fetched, fetched_all,
          fetch_order, feedback_failed
searchVars == <<s_pc, test_types, cost_ranges, hospital_types, cat, ci,
                hospitals_by, hospital_sets, hospitals, icu_min, zone_id,
                filtered, fi, top_n, filtered_sorted, fetched,
                fetched_all, fetch_order, feedback_failed>>

\* a capability invoked on its own (as src/test_tool.py does): the call with
\* the backends' answers to it, and what the capability returned
VARIABLES t_call, t_result
toolVars == <<t_call, t_result>>

----------------------------------------------------------------------------
(* Bounds *)
NumReq == 2
NumUsers == 2
MaxCalls == 2      \* capability requests the model makes for one chat request
ConcMaxCalls == 1  \* capability requests the model makes for all parallel requests

Req == 1..NumReq
Users == 1..NumUsers
NoList == 0
ListRefs == 1..(NumReq + NumUsers)
NoUser == 0

----------------------------------------------------------------------------
(* Capability names the model may put in a request, and str.lower() on them *)
SurfaceNames ==
    {"hospital_search", "get_test_by_id", "get_tests_by_type",
     "get_tests_by_hospital_name_or_id", "get_hospital_feedbacks",
     "doctor_search"}

AllNames == {"find_clinic", "GET_TEST_BY_ID"} \cup SurfaceNames

Lower(n) ==
    CASE n = "GET_TEST_BY_ID"  -> "get_test_by_id"
      [] OTHER                 -> n

\* main.py:132-137
tool_dict_keys ==
    {"hospital_search", "get_test_by_id", "get_tests_by_type",
     "get_tests_by_hospital_name_or_id"}

\* the lookup without .lower()
SelectedToolCaseSensitive(n) == IF n \in tool_dict_keys THEN n ELSE "None"

\* main.py:140-141  tool_dict.get(tool_call["name"].lower()); "None" if absent
SelectedTool(n) == IF Lower(n) \in tool_dict_keys THEN Lower(n) ELSE "None"

----------------------------------------------------------------------------
(* Backend replies seen by a capability: a connection failure (httpx        *)
(* raises), or a response with a status and a body.                         *)
Success(status) == 200 <= status /\ status < 300

ConnFail == [conn |-> FALSE, status |-> 0, body |-> "none"]
Reply(st, b) == [conn |-> TRUE, status |-> st, body |-> b]

BackendReplies ==
    {ConnFail, Reply(200, "list"), Reply(200, "empty"), Reply(200, "malformed"),
     Reply(404, "object")}

\* resp.json(): raises on a body that is not JSON
JsonRaises(b) == b.body \in {"malformed", "none"}

Raised == [raised |-> TRUE, kind |-> "exception", status |-> 0]
Text(k, st) == [raised |-> FALSE, kind |-> k, status |-> st]

----------------------------------------------------------------------------
(* rapidfuzz: fuzz.ratio and process.extractOne over strings, modelled as   *)
(* sequences of characters.  fuzz.ratio(a, b) is the normalised Indel       *)
(* similarity 100 * 2 * LCS(a, b) / (len(a) + len(b)), 100 for two empty    *)
(* strings; comparisons of scores are done on the cross-multiplied          *)
(* integers.                                                                *)
Max(a, b) == IF a >= b THEN a ELSE b

RECURSIVE LCS(_, _)
LCS(a, b) ==
    IF a = <<>> \/ b = <<>> THEN 0
    ELSE IF Head(a) = Head(b) THEN 1 + LCS(Tail(a), Tail(b))
    ELSE Max(LCS(Tail(a), b), LCS(a, Tail(b)))

\* fuzz.ratio(a, b) >= threshold
RatioAtLeast(a, b, threshold) ==
    200 * LCS(a, b) >= threshold * (Len(a) + Len(b))

\* fuzz.ratio(q, c1) > fuzz.ratio(q, c2)
RatioGreater(q, c1, c2) ==
    LCS(q, c1) * (Len(q) + Len(c2)) > LCS(q, c2) * (Len(q) + Len(c1))

\* process.extractOne(q, choices, scorer=fuzz.ratio): the index of the best
\* choice, the earliest among equal scores; 0 for no choices (None)
RECURSIVE ExtractOneFrom(_, _, _, _)
ExtractOneFrom(q, choices, i, best) ==
    IF i > Len(choices) THEN best
    ELSE ExtractOneFrom(q, choices, i + 1,
                        IF best = 0 \/ RatioGreater(q, choices[i], choices[best])
                        THEN i ELSE best)

ExtractOne(q, choices) == ExtractOneFrom(q, choices, 1, 0)

FuzzyThreshold == 80

----------------------------------------------------------------------------
(* The lookup capabilities as the loop sees them (src/tools.py): each maps  *)
(* its arguments and the backend's replies to the string it returns, or     *)
(* raises.                                                                  *)
NoId == -1
NoName == <<"None">>
NoArgs == [hospitalId |-> NoId, hospitalName |-> NoName]

\* the hospitals a "list" body of /hospital/v1/all holds
HospitalFixture ==
    << [id |-> 1, name |-> <<"C","a","r","e">>],
       [id |-> 2, name |-> <<"C","i","t","y">>] >>

Hospitals(b) == IF b.body = "list" THEN HospitalFixture ELSE <<>>
HospitalNames(hs) == [i \in 1..Len(hs) |-> hs[i].name]

\* tools.py:216-220 and 227-231: one fetch, no exception handling
FetchAndReturn(b) ==
    IF ~b.conn THEN Raised
    ELSE IF ~Success(b.status) THEN Text("Error: status", b.status)
    ELSE Text("resp.text", b.status)

get_test_by_id_tool(b) == FetchAndReturn(b)

get_tests_by_type_tool(b) == FetchAndReturn(b)

\* lines 239-240 left out: the arguments are not tested
get_tests_by_hospital_tool_unchecked(args, bAll, bTests) ==
    IF args.hospitalId # NoId THEN FetchAndReturn(bTests)
    ELSE IF ~bAll.conn \/ JsonRaises(bAll) \/ bAll.body = "object" THEN Raised
    ELSE Text("Error: No hospital found matching", 0)

\* tools.py:239-258
get_tests_by_hospital_tool(args, bAll, bTests) ==
    IF args.hospitalId = NoId /\ args.hospitalName = NoName
    THEN Text("Error: Either hospitalId or hospitalName must be provided", 0)
    ELSE IF args.hospitalId # NoId THEN FetchAndReturn(bTests)
    ELSE IF ~bAll.conn \/ JsonRaises(bAll) \/ bAll.body = "object" THEN Raised
    ELSE LET all_hospitals == Hospitals(bAll)
             names == HospitalNames(all_hospitals)
             match == ExtractOne(args.hospitalName, names)
         IN  IF match = 0 THEN Raised   \* extractOne gave None: match[1] raises
             ELSE IF ~RatioAtLeast(args.hospitalName, names[match], FuzzyThreshold)
             THEN Text("Error: No hospital found matching", 0)
             ELSE FetchAndReturn(bTests)

\* tools.py:68-209 invoked with no argument: lines 133-138 fetch all
\* hospitals, the feedback fetches are caught (186-199)
hospital_search_tool_noargs(bAll) ==
    IF ~bAll.conn THEN Raised
    ELSE IF ~Success(bAll.status) THEN Text("json.dumps", bAll.status)
    ELSE IF JsonRaises(bAll) \/ bAll.body = "object" THEN Raised
    ELSE Text("json.dumps", bAll.status)

\* selected_tool.invoke(tool_call), main.py:143
ToolInvoke(tool, args, b1, b2) ==
    CASE tool = "hospital_search" -> hospital_search_tool_noargs(b1)
      [] tool = "get_test_by_id" -> get_test_by_id_tool(b1)
      [] tool = "get_tests_by_type" -> get_tests_by_type_tool(b1)
      [] tool = "get_tests_by_hospital_name_or_id" ->
             get_tests_by_hospital_tool(args, b1, b2)

----------------------------------------------------------------------------
(* Messages *)
Content(k, st, r, n) == [kind |-> k, status |-> st, of |-> <<r, n>>]

SystemMessage ==
    [type |-> "system", req |-> 0, round |-> 0, calls |-> <<>>,
     call_id |-> <<>>, name |-> "", content |-> Content("SYSTEM_PROMPT", 0, 0, 0)]

HumanMessage(r) ==
    [type |-> "human", req |-> r, round |-> 0, calls |-> <<>>,
     call_id |-> <<>>, name |-> "", content |-> Content("message", 0, r, 0)]

AIMessage(r, n, calls) ==
    [type |-> "ai", req |-> r, round |-> n, calls |-> calls,
     call_id |-> <<>>, name |-> "", content |-> Content("ai", 0, r, n)]

ToolMessage(call, tool, res) ==
    [type |-> "tool", req |-> call.id[1], round |-> call.id[2], calls |-> <<>>,
     call_id |-> call.id, name |-> tool,
     content |-> Content(res.kind, res.status, call.id[1], call.id[2])]

\* the capability requests of a model response, with the ids the model gives
WithIds(r, n, templates) ==
    [i \in 1..Len(templates) |->
        [id |-> <<r, n, i>>, name |-> templates[i].name, args |-> templates[i].args]]

SeqsUpTo(S, n) == UNION {[1..k -> S] : k \in 0..n}

\* what the model may request: every name, the by-hospital tool with each
\* shape of arguments
ByHospitalArgs ==
    {NoArgs,
     [hospitalId |-> 1, hospitalName |-> NoName],
     [hospitalId |-> NoId, hospitalName |-> <<"C","a","r","r","e">>],
     [hospitalId |-> NoId, hospitalName |-> <<"Z","o","o">>]}

LoopCalls ==
    {[name |-> n, args |-> NoArgs] : n \in AllNames}
    \cup {[name |-> "get_tests_by_hospital_name_or_id", args |-> a] : a \in ByHospitalArgs}

ConcCalls ==
    {[name |-> "get_test_by_id", args |-> NoArgs],
     [name |-> "find_clinic", args |-> NoArgs]}

ConcReplies == {ConnFail, Reply(200, "list")}

None == [content |-> Content("None", 0, 0, 0), len |-> 0]

----------------------------------------------------------------------------
(* chat_endpoint, main.py:117-152 *)
List(r) == heap[messages[r]]

\* the capability requests the model has produced for request r so far, in
\* order: those of r's assistant messages in the list
RECURSIVE CallsIn(_, _)
CallsIn(list, r) ==
    IF list = <<>> THEN <<>>
    ELSE (IF Head(list).type = "ai" /\ Head(list).req = r
          THEN Head(list).calls ELSE <<>>) \o CallsIn(Tail(list), r)

Produced(r) == IF messages[r] = NoList THEN <<>> ELSE CallsIn(List(r), r)

RECURSIVE SumProduced(_)
SumProduced(n) == IF n = 0 THEN 0 ELSE Len(Produced(n)) + SumProduced(n - 1)

\* the capability requests the model has produced so far, for all requests
TotalProduced == SumProduced(NumReq)

AppendTo(ref, m) == [heap EXCEPT ![ref] = Append(@, m)]

LoopInit ==
    /\ user_messages = [u \in Users |-> NoList]
    /\ heap = [l \in ListRefs |-> <<>>]
    /\ allocated = 0
    /\ user_lock = 0
    /\ pc = [r \in Req |-> "idle"]
    /\ userId = [r \in Req |-> NoUser]
    /\ messages = [r \in Req |-> NoList]
    /\ tool_calls = [r \in Req |-> <<>>]
    /\ ti = [r \in Req |-> 1]
    /\ invoked = [r \in Req |-> 0]
    /\ handled = [r \in Req |-> <<>>]
    /\ response = [r \in Req |-> None]

\* main.py:117-119  a request for some user id arrives.  Requests are
\* numbered in the order they arrive and user ids in the order they first
\* appear.
Arrive(r) ==
    /\ pc[r] = "idle"
    /\ \A q \in Req : q < r => pc[q] # "idle"
    /\ \E u \in Users :
          /\ \A v \in Users : v < u => \E q \in Req : userId[q] = v
          /\ userId' = [userId EXCEPT ![r] = u]
    /\ pc' = [pc EXCEPT ![r] = "acquire1"]
    /\ UNCHANGED <<user_messages, heap, allocated, user_lock, messages,
                   tool_calls, ti, invoked, handled, response>>
    /\ UNCHANGED <<searchVars, toolVars>>

\* main.py:120  with user_lock:
Acquire1(r) ==
    /\ pc[r] = "acquire1"
    /\ user_lock = 0
    /\ user_lock' = r
    /\ pc' = [pc EXCEPT ![r] = "locked1"]
    /\ UNCHANGED <<user_messages, heap, allocated, userId, messages,
                   tool_calls, ti, invoked, handled, response>>
    /\ UNCHANGED <<searchVars, toolVars>>

\* lines 121-122 without the test: the system prompt goes in on every request
GetOrCreateAlwaysPrompt(r) ==
    /\ pc[r] = "locked1"
    /\ user_lock = r
    /\ IF user_messages[userId[r]] = NoList
       THEN /\ allocated' = allocated + 1
            /\ heap' = [heap EXCEPT ![allocated + 1] = <<SystemMessage>>]
            /\ user_messages' = [user_messages EXCEPT ![userId[r]] = allocated + 1]
       ELSE /\ heap' = [heap EXCEPT ![user_messages[userId[r]]] = Append(@, SystemMessage)]
            /\ UNCHANGED <<allocated, user_messages>>
    /\ messages' = [messages EXCEPT ![r] = user_messages'[userId[r]]]
    /\ user_lock' = 0
    /\ pc' = [pc EXCEPT ![r] = "append_user"]
    /\ UNCHANGED <<userId, tool_calls, ti, invoked, handled, response>>
    /\ UNCHANGED <<searchVars, toolVars>>

\* line 123 taking a copy of the stored list, list(user_messages[userId])
GetOrCreateCopy(r) ==
    /\ pc[r] = "locked1"
    /\ user_lock = r
    /\ LET made == IF user_messages[userId[r]] = NoList THEN 1 ELSE 0
           stored == IF made = 1 THEN allocated + 1 ELSE user_messages[userId[r]]
           content == IF made = 1 THEN <<SystemMessage>> ELSE heap[stored]
       IN  /\ allocated' = allocated + made + 1
           /\ heap' = [heap EXCEPT ![stored] = content, ![allocated + made + 1] = content]
           /\ user_messages' = [user_messages EXCEPT ![userId[r]] = stored]
           /\ messages' = [messages EXCEPT ![r] = allocated + made + 1]
    /\ user_lock' = 0
    /\ pc' = [pc EXCEPT ![r] = "append_user"]
    /\ UNCHANGED <<userId, tool_calls, ti, invoked, handled, response>>
    /\ UNCHANGED <<searchVars, toolVars>>

\* main.py:121-123, and the release at the end of the with block.  The
\* local `messages` is the stored list itself, not a copy of it.
GetOrCreate(r) ==
    /\ pc[r] = "locked1"
    /\ user_lock = r
    /\ IF user_messages[userId[r]] = NoList
       THEN /\ allocated' = allocated + 1
            /\ heap' = [heap EXCEPT ![allocated + 1] = <<SystemMessage>>]
            /\ user_messages' = [user_messages EXCEPT ![userId[r]] = allocated + 1]
       ELSE UNCHANGED <<allocated, heap, user_messages>>
    /\ messages' = [messages EXCEPT ![r] = user_messages'[userId[r]]]
    /\ user_lock' = 0
    /\ pc' = [pc EXCEPT ![r] = "append_user"]
    /\ UNCHANGED <<userId, tool_calls, ti, invoked, handled, response>>
    /\ UNCHANGED <<searchVars, toolVars>>

\* main.py:125
AppendUser(r) ==
    /\ pc[r] = "append_user"
    /\ heap' = AppendTo(messages[r], HumanMessage(r))
    /\ pc' = [pc EXCEPT ![r] = "invoke"]
    /\ UNCHANGED <<user_messages, allocated, user_lock, userId, messages,
                   tool_calls, ti, invoked, handled, response>>
    /\ UNCHANGED <<searchVars, toolVars>>

\* the while test of line 138 with a cap on the rounds: the second response
\* ends the loop whatever it requests
InvokeModelCapped(r, calls, cap) ==
    /\ pc[r] = "invoke"
    /\ \E templates \in SeqsUpTo(calls, cap - TotalProduced) :
          LET n == invoked[r] + 1
              tc == WithIds(r, n, templates)
          IN  /\ heap' = AppendTo(messages[r], AIMessage(r, n, tc))
              /\ tool_calls' = [tool_calls EXCEPT ![r] = tc]
              /\ pc' = [pc EXCEPT ![r] = IF Len(tc) > 0 /\ n < 2
                                         THEN "tools" ELSE "acquire2"]
    /\ invoked' = [invoked EXCEPT ![r] = @ + 1]
    /\ ti' = [ti EXCEPT ![r] = 1]
    /\ UNCHANGED <<user_messages, allocated, user_lock, userId, messages,
                   handled, response>>
    /\ UNCHANGED <<searchVars, toolVars>>

\* main.py:127-131 and 145-147 followed by the while test of line 138:
\* the model answers with any list of capability requests (none: a reply)
InvokeModel(r, calls, cap) ==
    /\ pc[r] = "invoke"
    /\ \E templates \in SeqsUpTo(calls, cap - TotalProduced) :
          LET n == invoked[r] + 1
              tc == WithIds(r, n, templates)
          IN  /\ heap' = AppendTo(messages[r], AIMessage(r, n, tc))
              /\ tool_calls' = [tool_calls EXCEPT ![r] = tc]
              /\ pc' = [pc EXCEPT ![r] = IF Len(tc) > 0 THEN "tools" ELSE "acquire2"]
    /\ invoked' = [invoked EXCEPT ![r] = @ + 1]
    /\ ti' = [ti EXCEPT ![r] = 1]
    /\ UNCHANGED <<user_messages, allocated, user_lock, userId, messages,
                   handled, response>>
    /\ UNCHANGED <<searchVars, toolVars>>

\* main.py:127, 145  llm_with_tools.invoke raises: the request ends in an
\* error, nothing after it runs
ModelRaises(r) ==
    /\ pc[r] = "invoke"
    /\ invoked' = [invoked EXCEPT ![r] = @ + 1]
    /\ pc' = [pc EXCEPT ![r] = "model_error"]
    /\ UNCHANGED <<user_messages, heap, allocated, user_lock, userId, messages,
                   tool_calls, ti, handled, response>>
    /\ UNCHANGED <<searchVars, toolVars>>

\* main.py:139  the for loop moves to the next request of the round, or the
\* round ends and the model is invoked again (line 145)
NextCall(r) ==
    /\ ti' = [ti EXCEPT ![r] = @ + 1]
    /\ pc' = [pc EXCEPT ![r] = IF ti[r] + 1 > Len(tool_calls[r]) THEN "invoke" ELSE "tools"]

\* line 144 left out: the handler runs, its result is dropped
ExecToolNoAppend(r, replies) ==
    /\ pc[r] = "tools"
    /\ LET call == tool_calls[r][ti[r]]
           tool == SelectedTool(call.name)
       IN  /\ tool # "None"
           /\ \E b1, b2 \in replies : ~ToolInvoke(tool, call.args, b1, b2).raised
           /\ handled' = [handled EXCEPT ![r] = Append(@, call.id)]
    /\ NextCall(r)
    /\ UNCHANGED <<user_messages, heap, allocated, user_lock, userId, messages,
                   tool_calls, invoked, response>>
    /\ UNCHANGED <<searchVars, toolVars>>

\* main.py:140-144  the name resolves: the handler runs and its result is
\* appended
ExecTool(r, replies) ==
    /\ pc[r] = "tools"
    /\ LET call == tool_calls[r][ti[r]]
           tool == SelectedTool(call.name)
       IN  /\ tool # "None"
           /\ \E b1, b2 \in replies :
                 LET res == ToolInvoke(tool, call.args, b1, b2)
                 IN  /\ ~res.raised
                     /\ heap' = AppendTo(messages[r], ToolMessage(call, tool, res))
           /\ handled' = [handled EXCEPT ![r] = Append(@, call.id)]
    /\ NextCall(r)
    /\ UNCHANGED <<user_messages, allocated, user_lock, userId, messages,
                   tool_calls, invoked, response>>
    /\ UNCHANGED <<searchVars, toolVars>>

\* main.py:143  the handler raises: nothing catches it in chat_endpoint
ToolRaises(r, replies) ==
    /\ pc[r] = "tools"
    /\ LET call == tool_calls[r][ti[r]]
           tool == SelectedTool(call.name)
       IN  /\ tool # "None"
           /\ \E b1, b2 \in replies : ToolInvoke(tool, call.args, b1, b2).raised
           /\ handled' = [handled EXCEPT ![r] = Append(@, call.id)]
    /\ pc' = [pc EXCEPT ![r] = "tool_error"]
    /\ UNCHANGED <<user_messages, heap, allocated, user_lock, userId, messages,
                   tool_calls, ti, invoked, response>>
    /\ UNCHANGED <<searchVars, toolVars>>

\* main.py:141-142  tool_dict.get gives None: the request is passed over
SkipTool(r) ==
    /\ pc[r] = "tools"
    /\ SelectedTool(tool_calls[r][ti[r]].name) = "None"
    /\ NextCall(r)
    /\ UNCHANGED <<user_messages, heap, allocated, user_lock, userId, messages,
                   tool_calls, invoked, handled, response>>
    /\ UNCHANGED <<searchVars, toolVars>>

\* main.py:149
Acquire2(r) ==
    /\ pc[r] = "acquire2"
    /\ user_lock = 0
    /\ user_lock' = r
    /\ pc' = [pc EXCEPT ![r] = "locked2"]
    /\ UNCHANGED <<user_messages, heap, allocated, userId, messages,
                   tool_calls, ti, invoked, handled, response>>
    /\ UNCHANGED <<searchVars, toolVars>>

\* main.py:150, and the release
WriteBack(r) ==
    /\ pc[r] = "locked2"
    /\ user_lock = r
    /\ user_messages' = [user_messages EXCEPT ![userId[r]] = messages[r]]
    /\ user_lock' = 0
    /\ pc' = [pc EXCEPT ![r] = "respond"]
    /\ UNCHANGED <<heap, allocated, userId, messages,
                   tool_calls, ti, invoked, handled, response>>
    /\ UNCHANGED <<searchVars, toolVars>>

\* main.py:152
Respond(r) ==
    /\ pc[r] = "respond"
    /\ response' = [response EXCEPT ![r] =
                      [content |-> List(r)[Len(List(r))].content, len |-> Len(List(r))]]
    /\ pc' = [pc EXCEPT ![r] = "done"]
    /\ UNCHANGED <<user_messages, heap, allocated, user_lock, userId, messages,
                   tool_calls, ti, invoked, handled>>
    /\ UNCHANGED <<searchVars, toolVars>>

----------------------------------------------------------------------------
(* hospital_search_tool, tools.py:48-209.  Strings are sequences of         *)
(* characters; a hospital record is identified by its id.                   *)

\* models.py:23-33, 16-21, 6-14: the enums' values in declaration order
TEST_TYPE ==
    << <<"B", "L", "O", "O", "D">>,
       <<"H", "E", "A", "R", "T">>,
       <<"B", "R", "A", "I", "N">>,
       <<"L", "U", "N", "G">>,
       <<"E", "Y", "E">>,
       <<"B", "O", "N", "E">>,
       <<"S", "K", "I", "N">>,
       <<"G", "E", "N", "E", "R", "A", "L">>,
       <<"L", "I", "V", "E", "R">>,
       <<"K", "I", "D", "N", "E", "Y">> >>
COST_RANGE ==
    << <<"V", "E", "R", "Y", "_", "L", "O", "W">>,
       <<"L", "O", "W">>,
       <<"M", "O", "D", "E", "R", "A", "T", "E">>,
       <<"H", "I", "G", "H">>,
       <<"V", "E", "R", "Y", "_", "H", "I", "G", "H">> >>
HOSPITAL_TYPE ==
    << <<"P", "U", "B", "L", "I", "C">>,
       <<"P", "R", "I", "V", "A", "T", "E">>,
       <<"G", "E", "N", "E", "R", "A", "L">>,
       <<"S", "P", "E", "C", "I", "A", "L", "I", "Z", "E", "D">>,
       <<"C", "H", "I", "L", "D", "R", "E", "N">>,
       <<"M", "A", "T", "E", "R", "N", "I", "T", "Y">>,
       <<"R", "E", "S", "E", "A", "R", "C", "H">>,
       <<"R", "E", "H", "A", "B", "I", "L", "I", "T", "A", "T", "I", "O", "N">> >>

\* tools.py:42-46
fuzzy_enum_match(value, choices) ==
    LET best == ExtractOne(value, choices)
    IN  IF RatioAtLeast(value, choices[best], FuzzyThreshold)
        THEN <<choices[best]>> ELSE <<>>

\* tools.py:72-78 (and 81-87, 90-96): a falsy argument (None or []) is left
\* as it is; otherwise the tokens that match, in order
RECURSIVE MatchAll(_, _)
MatchAll(tokens, choices) ==
    IF tokens = <<>> THEN <<>>
    ELSE fuzzy_enum_match(Head(tokens), choices) \o MatchAll(Tail(tokens), choices)

NoTokens == <<NoName>>
Falsy(tokens) == tokens = NoTokens \/ tokens = <<>>
Normalized(tokens, choices) ==
    IF Falsy(tokens) THEN tokens ELSE MatchAll(tokens, choices)

\* Bounds of the search
NumHospitals == 3
DefaultTopN == 5
NoneInt == -1

HospitalIds == 1..NumHospitals

\* the backends' hospital records: 'icus' and locationResponse.zoneId of
\* the record with a given id (icus is null for the first)
Icus(h) == CASE h = 1 -> NoneInt [] h = 2 -> 5 [] OTHER -> 20
ZoneId(h) == IF h = 1 THEN 1 ELSE 2

\* the lists of records a backend can answer with: any hospitals, any order
Injective(q) == \A i, j \in DOMAIN q : i # j => q[i] # q[j]
Perms(S) == {q \in [1..Cardinality(S) -> S] : Injective(q)}
HospitalLists == UNION {Perms(S) : S \in SUBSET HospitalIds}

\* a backend's answer to one fetch: no connection, a non-2xx status, a 2xx
\* body that is not JSON, or a 2xx list of records
FetchOk(l) == [conn |-> TRUE, status |-> 200, json |-> TRUE, list |-> l]
FetchReplies ==
    { [conn |-> FALSE, status |-> 0, json |-> FALSE, list |-> <<>>],
      [conn |-> TRUE, status |-> 500, json |-> FALSE, list |-> <<>>],
      [conn |-> TRUE, status |-> 200, json |-> FALSE, list |-> <<>>] }
    \cup {FetchOk(l) : l \in HospitalLists}
FetchRaises(b) == ~b.conn \/ (Success(b.status) /\ ~b.json)

\* the arguments the model passes: None, an empty list, tokens with typos,
\* tokens that match nothing
TestTypeArgs ==
    { NoTokens, <<>>, << <<"X","R","A","Y">> >>, << <<"B","L","O","D">> >>,
      << <<"B","L","O","O","D">>, <<"H","E","A","R","T">> >> }
CostRangeArgs == { NoTokens, << <<"L","O","W">> >> }
HospitalTypeArgs == { NoTokens, << <<"P","U","B","L","I","C">> >> }
IcuMins == {NoneInt, 10}
ZoneIds == {NoneInt, 0, 2}
TopNs == {0, 2, DefaultTopN}

Range(q) == {q[i] : i \in DOMAIN q}

\* [h for sub in lists for h in sub]
RECURSIVE Flat(_)
Flat(lists) == IF lists = <<>> THEN <<>> ELSE Head(lists) \o Flat(Tail(lists))

\* list({h['id']: h for h in flat}.values()): one entry per id, at the
\* place of the id's first occurrence
RECURSIVE ById(_, _)
ById(flat, seen) ==
    IF flat = <<>> THEN <<>>
    ELSE IF Head(flat) \in seen THEN ById(Tail(flat), seen)
    ELSE <<Head(flat)>> \o ById(Tail(flat), seen \cup {Head(flat)})

\* tools.py:31-37: the ids common to the lists that are not empty
RECURSIVE Intersection(_)
Intersection(sets) ==
    IF Len(sets) = 1 THEN Head(sets)
    ELSE Head(sets) \cap Intersection(Tail(sets))
common_ids(lists) ==
    LET sets == SelectSeq([i \in 1..Len(lists) |-> Range(lists[i])],
                          LAMBDA x : x # {})
    IN  IF lists = <<>> \/ sets = <<>> THEN {} ELSE Intersection(sets)

SearchIdle ==
    /\ s_pc = "idle"
    /\ test_types = NoTokens /\ cost_ranges = NoTokens
    /\ hospital_types = NoTokens
    /\ cat = 1 /\ ci = 1 /\ hospitals_by = <<>> /\ hospital_sets = <<>>
    /\ hospitals = <<>> /\ icu_min = NoneInt /\ zone_id = NoneInt
    /\ filtered = <<>> /\ fi = 1 /\ top_n = DefaultTopN
    /\ filtered_sorted = <<>>
    /\ fetched = [c \in 1..3 |-> {}] /\ fetched_all = FALSE
    /\ fetch_order = <<>>
    /\ feedback_failed = {}

\* hospital_search_tool is entered with some category arguments
SearchInit ==
    /\ s_pc = "normalize"
    /\ test_types \in TestTypeArgs
    /\ cost_ranges \in CostRangeArgs
    /\ hospital_types \in HospitalTypeArgs
    /\ cat = 1 /\ ci = 1 /\ hospitals_by = <<>> /\ hospital_sets = <<>>
    /\ hospitals = <<>> /\ icu_min = NoneInt /\ zone_id = NoneInt
    /\ filtered = <<>> /\ fi = 1 /\ top_n = DefaultTopN
    /\ filtered_sorted = <<>>
    /\ fetched = [c \in 1..3 |-> {}] /\ fetched_all = FALSE
    /\ fetch_order = <<>>
    /\ feedback_failed = {}

\* the category blocks in the order of lines 98, 111, 122
Tokens(c) ==
    CASE c = 1 -> test_types [] c = 2 -> cost_ranges [] OTHER -> hospital_types

\* tools.py:70-96
Normalize ==
    /\ s_pc = "normalize"
    /\ test_types' = Normalized(test_types, TEST_TYPE)
    /\ cost_ranges' = Normalized(cost_ranges, COST_RANGE)
    /\ hospital_types' = Normalized(hospital_types, HOSPITAL_TYPE)
    /\ s_pc' = "fetch"
    /\ UNCHANGED <<cat, ci, hospitals_by, hospital_sets, hospitals, icu_min,
                   zone_id, filtered, fi, top_n, filtered_sorted, fetched,
                   fetched_all, fetch_order, feedback_failed>>
    /\ UNCHANGED <<loopVars, toolVars>>

\* tools.py:100-105, 113-116, 124-127: one pass of a category's loop; a
\* non-2xx answer is passed over, a 2xx list is appended
CategoryFetch ==
    /\ s_pc = "fetch"
    /\ ~Falsy(Tokens(cat))
    /\ ci <= Len(Tokens(cat))
    /\ \E b \in FetchReplies :
        /\ ~FetchRaises(b)
        /\ IF Success(b.status)
           THEN /\ hospitals_by' = Append(hospitals_by, b.list)
                /\ fetched' = [fetched EXCEPT ![cat] = @ \cup Range(b.list)]
                /\ fetch_order' = ById(fetch_order \o b.list, {})
           ELSE UNCHANGED <<hospitals_by, fetched, fetch_order>>
    /\ ci' = ci + 1
    /\ UNCHANGED <<feedback_failed, s_pc, test_types, cost_ranges, hospital_types, cat,
                   hospital_sets, hospitals, icu_min, zone_id, filtered, fi,
                   top_n, filtered_sorted, fetched_all>>
    /\ UNCHANGED <<loopVars, toolVars>>

\* tools.py:101/103, 114/116, 125/127: client.get or resp.json() raises and
\* nothing catches it
CategoryFetchRaises ==
    /\ s_pc = "fetch"
    /\ ~Falsy(Tokens(cat))
    /\ ci <= Len(Tokens(cat))
    /\ \E b \in FetchReplies : FetchRaises(b)
    /\ s_pc' = "raised"
    /\ UNCHANGED <<feedback_failed, test_types, cost_ranges, hospital_types, cat, ci,
                   hospitals_by, hospital_sets, hospitals, icu_min, zone_id,
                   filtered, fi, top_n, filtered_sorted, fetched, fetched_all,
                   fetch_order>>
    /\ UNCHANGED <<loopVars, toolVars>>

\* tools.py:98 and 106-109 (111 and 117-120, 122 and 128-131): a falsy
\* category is passed over; after the loop the category's deduplicated
\* union is appended if at least one fetch succeeded
CategoryDone ==
    /\ s_pc = "fetch"
    /\ Falsy(Tokens(cat)) \/ ci > Len(Tokens(cat))
    /\ hospital_sets' = IF hospitals_by # <<>>
                        THEN Append(hospital_sets, ById(Flat(hospitals_by), {}))
                        ELSE hospital_sets
    /\ hospitals_by' = <<>>
    /\ ci' = 1
    /\ IF cat < 3 THEN cat' = cat + 1 /\ s_pc' = s_pc
                  ELSE cat' = cat /\ s_pc' = "all"
    /\ UNCHANGED <<feedback_failed, test_types, cost_ranges, hospital_types, hospitals,
                   icu_min, zone_id, filtered, fi, top_n, filtered_sorted,
                   fetched, fetched_all, fetch_order>>
    /\ UNCHANGED <<loopVars, toolVars>>

\* tools.py:133-136
FetchAll ==
    /\ s_pc = "all"
    /\ hospital_sets = <<>>
    /\ \E b \in FetchReplies :
        /\ ~FetchRaises(b)
        /\ IF Success(b.status)
           THEN /\ hospital_sets' = Append(hospital_sets, b.list)
                /\ fetch_order' = ById(fetch_order \o b.list, {})
           ELSE UNCHANGED <<hospital_sets, fetch_order>>
    /\ fetched_all' = TRUE
    /\ s_pc' = "intersect"
    /\ UNCHANGED <<feedback_failed, test_types, cost_ranges, hospital_types, cat, ci,
                   hospitals_by, hospitals, icu_min, zone_id, filtered, fi,
                   top_n, filtered_sorted, fetched>>
    /\ UNCHANGED <<loopVars, toolVars>>

\* tools.py:134/136 raises
FetchAllRaises ==
    /\ s_pc = "all"
    /\ hospital_sets = <<>>
    /\ \E b \in FetchReplies : FetchRaises(b)
    /\ fetched_all' = TRUE
    /\ s_pc' = "raised"
    /\ UNCHANGED <<feedback_failed, test_types, cost_ranges, hospital_types, cat, ci,
                   hospitals_by, hospital_sets, hospitals, icu_min, zone_id,
                   filtered, fi, top_n, filtered_sorted, fetched, fetch_order>>
    /\ UNCHANGED <<loopVars, toolVars>>

\* tools.py:133: some category set was appended, nothing more is fetched
NoFetchAll ==
    /\ s_pc = "all"
    /\ hospital_sets # <<>>
    /\ s_pc' = "intersect"
    /\ UNCHANGED <<feedback_failed, test_types, cost_ranges, hospital_types, cat, ci,
                   hospitals_by, hospital_sets, hospitals, icu_min, zone_id,
                   filtered, fi, top_n, filtered_sorted, fetched, fetched_all,
                   fetch_order>>
    /\ UNCHANGED <<loopVars, toolVars>>

\* tools.py:138 with 31-39: the pool lists the common ids in the order in
\* which the set common_ids is iterated, an order the language leaves open
Intersect ==
    /\ s_pc = "intersect"
    /\ \E order \in Perms(common_ids(hospital_sets)) : hospitals' = order
    /\ s_pc' = "filter"
    /\ UNCHANGED <<feedback_failed, test_types, cost_ranges, hospital_types, cat, ci,
                   hospitals_by, hospital_sets, icu_min, zone_id, filtered, fi,
                   top_n, filtered_sorted, fetched, fetched_all, fetch_order>>
    /\ UNCHANGED <<loopVars, toolVars>>

\* tools.py:140-179 for a call that passes icu_min and zone_id and leaves
\* city, thana, po, hospital_name, latitude, longitude, radius_km at None:
\* 'if zone_id and ...' takes None and 0 alike
hospital_filter(h, im, z) ==
    /\ ~(im # NoneInt /\ (Icus(h) = NoneInt \/ Icus(h) < im))
    /\ ~(z # NoneInt /\ z # 0 /\ ZoneId(h) # z)

\* a rating mean as the fraction sum/len; 0 for no ratings (line 193)
RECURSIVE Sum(_)
Sum(q) == IF q = <<>> THEN 0 ELSE Head(q) + Sum(Tail(q))
averageRating(ratings) ==
    IF ratings # <<>> THEN [num |-> Sum(ratings), den |-> Len(ratings)]
                      ELSE [num |-> 0, den |-> 1]
Less(a, b) == a.num * b.den < b.num * a.den

Rated(h, ratings) ==
    [id |-> h, ratings |-> ratings, averageRating |-> averageRating(ratings)]

\* tools.py:180: the arguments icu_min and zone_id are first read here.
\* The category arguments, hospital_sets and the category stage's record
\* are not read after line 138 and are dropped.
Filter ==
    /\ s_pc = "filter"
    /\ \E im \in IcuMins, z \in ZoneIds :
        /\ icu_min' = im
        /\ zone_id' = z
        /\ filtered' = [i \in 1..Len(SelectSeq(hospitals,
                                 LAMBDA h : hospital_filter(h, im, z))) |->
                          Rated(SelectSeq(hospitals,
                                 LAMBDA h : hospital_filter(h, im, z))[i], <<>>)]
    /\ fi' = 1
    /\ s_pc' = "rate"
    /\ test_types' = NoTokens /\ cost_ranges' = NoTokens
    /\ hospital_types' = NoTokens
    /\ cat' = 1 /\ hospital_sets' = <<>> /\ fetched' = [c \in 1..3 |-> {}]
    /\ UNCHANGED <<ci, hospitals_by, hospitals, top_n, filtered_sorted,
                   fetched_all, fetch_order, feedback_failed>>
    /\ UNCHANGED <<loopVars, toolVars>>

\* the feedback backend's answers for one hospital
FeedbackOk(ratings) ==
    [conn |-> TRUE, status |-> 200, json |-> TRUE, ratings |-> ratings]
FeedbackReplies ==
    { [conn |-> FALSE, status |-> 0, json |-> FALSE, ratings |-> <<>>],
      [conn |-> TRUE, status |-> 500, json |-> FALSE, ratings |-> <<>>],
      [conn |-> TRUE, status |-> 200, json |-> FALSE, ratings |-> <<>>],
      FeedbackOk(<<>>), FeedbackOk(<<5>>), FeedbackOk(<<3, 4>>) }

\* lines 186 and 197-199 left out: a feedback fetch that fails ends the
\* search
FeedbackPropagates ==
    /\ s_pc = "rate"
    /\ fi <= Len(filtered)
    /\ \E b \in FeedbackReplies :
        LET ok == b.conn /\ Success(b.status) /\ b.json
        IN  IF ok
            THEN /\ filtered' = [filtered EXCEPT ![fi] = Rated(@.id, b.ratings)]
                 /\ UNCHANGED <<feedback_failed, s_pc>>
            ELSE /\ feedback_failed' = feedback_failed \cup {filtered[fi].id}
                 /\ s_pc' = "raised"
                 /\ UNCHANGED filtered
    /\ fi' = fi + 1
    /\ UNCHANGED <<test_types, cost_ranges, hospital_types, cat, ci,
                   hospitals_by, hospital_sets, hospitals, icu_min, zone_id,
                   top_n, filtered_sorted, fetched, fetched_all, fetch_order>>
    /\ UNCHANGED <<loopVars, toolVars>>

\* tools.py:183-202: one pass of the loop; an exception and a non-2xx
\* answer both leave no ratings
Feedback ==
    /\ s_pc = "rate"
    /\ fi <= Len(filtered)
    /\ \E b \in FeedbackReplies :
        LET ok == b.conn /\ Success(b.status) /\ b.json
            ratings == IF filtered[fi].id # 0 /\ ok THEN b.ratings ELSE <<>>
        IN  /\ filtered' = [filtered EXCEPT ![fi] = Rated(@.id, ratings)]
            /\ feedback_failed' = IF filtered[fi].id # 0 /\ ~ok
                                  THEN feedback_failed \cup {filtered[fi].id}
                                  ELSE feedback_failed
    /\ fi' = fi + 1
    /\ UNCHANGED <<s_pc, test_types, cost_ranges, hospital_types, cat, ci,
                   hospitals_by, hospital_sets, hospitals, icu_min, zone_id,
                   top_n, filtered_sorted, fetched, fetched_all, fetch_order>>
    /\ UNCHANGED <<loopVars, toolVars>>

\* sorted(q, key=averageRating, reverse=True): descending, records of equal
\* key in the order they have in q
RECURSIVE Insert(_, _)
Insert(q, h) ==
    IF q = <<>> THEN <<h>>
    ELSE IF Less(Head(q).averageRating, h.averageRating) THEN <<h>> \o q
    ELSE <<Head(q)>> \o Insert(Tail(q), h)
RECURSIVE SortedInto(_, _)
SortedInto(acc, q) ==
    IF q = <<>> THEN acc ELSE SortedInto(Insert(acc, Head(q)), Tail(q))
Sorted(q) == SortedInto(<<>>, q)

\* q[:n] for n >= 0
Take(q, n) == SubSeq(q, 1, IF n < Len(q) THEN n ELSE Len(q))

\* tools.py:205-209: the argument top_n is first read here
SortTruncate ==
    /\ s_pc = "rate"
    /\ fi > Len(filtered)
    /\ \E n \in TopNs :
        /\ top_n' = n
        /\ filtered_sorted' = Take(Sorted(filtered), n)
    /\ s_pc' = "returned"
    /\ UNCHANGED <<feedback_failed, test_types, cost_ranges, hospital_types, cat, ci,
                   hospitals_by, hospital_sets, hospitals, icu_min, zone_id,
                   filtered, fi, fetched, fetched_all, fetch_order>>
    /\ UNCHANGED <<loopVars, toolVars>>

NextSearch ==
    \/ Normalize
    \/ CategoryFetch
    \/ CategoryFetchRaises
    \/ CategoryDone
    \/ FetchAll
    \/ FetchAllRaises
    \/ NoFetchAll
    \/ Intersect
    \/ Filter
    \/ Feedback
    \/ SortTruncate

----------------------------------------------------------------------------
(* The capabilities invoked on their own, with every shape of arguments and *)
(* every backend answer.                                                    *)

\* tools.py:266-305: every exception after line 269 is caught at line 302
\* and returned as "Error: <text of the exception>"
get_hospital_feedbacks_tool(args, bAll, bFeed) ==
    IF args.hospitalId = NoId /\ args.hospitalName = NoName
    THEN Text("Error: Either hospitalId or hospitalName must be provided", 0)
    ELSE LET feedbacks ==
                 IF ~bFeed.conn THEN Text("Error: str(e)", 0)
                 ELSE IF ~Success(bFeed.status)
                 THEN Text("Error: Failed to fetch feedbacks. Status", bFeed.status)
                 ELSE Text("resp.text", bFeed.status)
         IN  IF args.hospitalId # NoId THEN feedbacks
             ELSE IF ~bAll.conn THEN Text("Error: str(e)", 0)
             ELSE IF ~Success(bAll.status)
             THEN Text("Error: Failed to fetch hospitals list. Status", bAll.status)
             ELSE IF JsonRaises(bAll) \/ bAll.body = "object"
             THEN Text("Error: str(e)", bAll.status)
             ELSE LET names == HospitalNames(Hospitals(bAll))
                      match == ExtractOne(args.hospitalName, names)
                  IN  IF match = 0 THEN Text("Error: str(e)", bAll.status)
                      ELSE IF ~RatioAtLeast(args.hospitalName, names[match],
                                            FuzzyThreshold)
                      THEN Text("Error: No hospital found matching", 0)
                      ELSE feedbacks

DirectTools == tool_dict_keys \cup {"get_hospital_feedbacks"}
ByHospitalTools == {"get_tests_by_hospital_name_or_id", "get_hospital_feedbacks"}

\* tool.invoke(arguments), test_tool.py
DirectInvoke(tool, args, b1, b2) ==
    IF tool = "get_hospital_feedbacks"
    THEN get_hospital_feedbacks_tool(args, b1, b2)
    ELSE ToolInvoke(tool, args, b1, b2)

NoCall == [tool |-> "None", args |-> NoArgs, b1 |-> ConnFail, b2 |-> ConnFail]
NoResult == Text("None", 0)

ToolsIdle == t_call = NoCall /\ t_result = NoResult

ToolsInit ==
    /\ t_call \in [tool : DirectTools, args : ByHospitalArgs,
                   b1 : BackendReplies, b2 : BackendReplies]
    /\ t_call.tool \notin ByHospitalTools => t_call.args = NoArgs
    /\ t_result = NoResult

Invoke ==
    /\ t_result = NoResult
    /\ t_result' = DirectInvoke(t_call.tool, t_call.args, t_call.b1, t_call.b2)
    /\ UNCHANGED <<t_call, loopVars, searchVars>>

vars == <<loopVars, searchVars, toolVars>>

\* Requests of several users, two of them possibly of the same user, run
\* in parallel
Next ==
    \E r \in Req :
        \/ Arrive(r)
        \/ Acquire1(r)
        \/ GetOrCreate(r)
        \/ AppendUser(r)
        \/ InvokeModel(r, ConcCalls, ConcMaxCalls)
        \/ ModelRaises(r)
        \/ ExecTool(r, ConcReplies)
        \/ ToolRaises(r, ConcReplies)
        \/ SkipTool(r)
        \/ Acquire2(r)
        \/ WriteBack(r)
        \/ Respond(r)

\* the loop's specifications leave hospital_search_tool's locals alone
Init == LoopInit /\ SearchIdle /\ ToolsIdle
Spec == Init /\ [][Next]_vars

\* One request, every capability name and every backend reply
NextLoop ==
    \/ Arrive(1)
    \/ Acquire1(1)
    \/ GetOrCreate(1)
    \/ AppendUser(1)
    \/ InvokeModel(1, LoopCalls, MaxCalls)
    \/ ModelRaises(1)
    \/ ExecTool(1, BackendReplies)
    \/ ToolRaises(1, BackendReplies)
    \/ SkipTool(1)
    \/ Acquire2(1)
    \/ WriteBack(1)
    \/ Respond(1)

SpecLoop == Init /\ [][NextLoop]_vars

\* the same, where the straight-line code after the loop (main.py:149-152)
\* runs to its end: the lock is free whenever the request asks for it, and
\* nothing in these lines waits on the model or a backend
SpecLoopFair ==
    /\ Init /\ [][NextLoop]_vars
    /\ WF_vars(Acquire2(1)) /\ WF_vars(WriteBack(1)) /\ WF_vars(Respond(1))

\* One call of hospital_search_tool, every argument and every backend answer
InitSearch == LoopInit /\ SearchInit /\ ToolsIdle
SpecSearch == InitSearch /\ [][NextSearch]_vars

\* One capability invoked on its own
InitTools == LoopInit /\ SearchIdle /\ ToolsInit
NextTools == Invoke
SpecTools == InitTools /\ [][NextTools]_vars

----------------------------------------------------------------------------
(* Observations on a request's run *)
RECURSIVE SelectSeq2(_, _, _)
SelectSeq2(list, type, r) ==
    IF list = <<>> THEN <<>>
    ELSE (IF Head(list).type = type /\ Head(list).req = r THEN <<Head(list)>> ELSE <<>>)
         \o SelectSeq2(Tail(list), type, r)

\* r's messages of one type, in the order they stand in r's list
MessagesOf(r, type) ==
    IF messages[r] = NoList THEN <<>> ELSE SelectSeq2(List(r), type, r)

\* the request ids of r's ToolResult messages, in list order
ResultIds(r) == [i \in 1..Len(MessagesOf(r, "tool")) |-> MessagesOf(r, "tool")[i].call_id]

Ids(calls) == [i \in 1..Len(calls) |-> calls[i].id]

InRegistry(call) == Lower(call.name) \in tool_dict_keys

RECURSIVE Registered(_)
Registered(calls) ==
    IF calls = <<>> THEN <<>>
    ELSE (IF InRegistry(Head(calls)) THEN <<Head(calls)>> ELSE <<>>) \o Registered(Tail(calls))

\* the requests of the round in progress the for loop has not reached yet
\* (the one at ti included)
Pending(r) ==
    IF pc[r] \in {"tools", "tool_error"} THEN Len(tool_calls[r]) - ti[r] + 1 ELSE 0

\* the requests the loop has gone through
Processed(r) == SubSeq(Produced(r), 1, Len(Produced(r)) - Pending(r))

Settled(r) == pc[r] \in {"acquire2", "locked2", "respond", "done"}

----------------------------------------------------------------------------
(* C1 as stated: when the model is about to be invoked again, and when the  *)
(* loop has settled, the ToolResult messages of the run are exactly one per *)
(* capability request the model produced, in the order produced.            *)
C1_OnePerProducedRequest ==
    \A r \in Req :
        (pc[r] = "invoke" \/ Settled(r)) => ResultIds(r) = Ids(Produced(r))

(* C1, amended: the ToolResult messages of a run are exactly one per        *)
(* capability request whose lower-cased name is in the registry, in the     *)
(* order the model produced them; all of a round's are appended before the  *)
(* next model invocation, and a round in progress has appended those of the *)
(* requests the loop has gone through.                                      *)
C1_OnePerRegisteredRequest ==
    \A r \in Req :
        /\ ResultIds(r) = Ids(Registered(Processed(r)))
        /\ (pc[r] = "invoke" \/ Settled(r)) => ResultIds(r) = Ids(Registered(Produced(r)))

\* two rounds of one registered request each, then a reply: two ToolResults
C1_Witness ==
    /\ pc[1] = "done"
    /\ invoked[1] = 3
    /\ Len(ResultIds(1)) = 2
    /\ ResultIds(1) = <<<<1, 1, 1>>, <<1, 2, 1>>>>

----------------------------------------------------------------------------
\* the places in r's list of r's messages of one type
Places(r, type) ==
    IF messages[r] = NoList THEN {}
    ELSE {i \in 1..Len(List(r)) : List(r)[i].type = type /\ List(r)[i].req = r}

Last(list) == list[Len(list)]

\* r's model responses that carry no capability request
PlainResponses(r) ==
    {i \in 1..Len(MessagesOf(r, "ai")) : MessagesOf(r, "ai")[i].calls = <<>>}

\* The loop part of C2: the request is past the loop exactly when the model
\* has given a response without requests; that response is the last and the
\* only such one, no ToolResult of the run follows it, and the model has
\* been invoked once per response (once in all when the first is plain).
C2_LoopSettles ==
    \A r \in Req :
        LET ais == MessagesOf(r, "ai")
        IN  /\ Settled(r) <=> PlainResponses(r) # {}
            /\ PlainResponses(r) \subseteq {Len(ais)}
            /\ Settled(r) =>
                  /\ invoked[r] = Len(ais)
                  /\ \A i \in Places(r, "tool") : \A j \in Places(r, "ai") :
                        List(r)[j].calls = <<>> => i < j

----------------------------------------------------------------------------
Stored(u) == heap[user_messages[u]]

Holds(list, type, r, n, id) ==
    \E i \in 1..Len(list) :
        /\ list[i].type = type /\ list[i].req = r
        /\ list[i].round = n /\ list[i].call_id = id

\* some message that request r appended is not in its user's stored history
Missing(r) ==
    LET list == Stored(userId[r])
    IN  \/ ~Holds(list, "human", r, 0, <<>>)
        \/ \E n \in 1..invoked[r] : ~Holds(list, "ai", r, n, <<>>)
        \/ \E k \in 1..Len(handled[r]) :
              ~Holds(list, "tool", r, handled[r][k][2], handled[r][k])

\* both requests are of one user and each appended its user message before
\* the other's final response was appended: they overlapped in time
Overlapped(r1, r2) ==
    /\ r1 # r2 /\ userId[r1] = userId[r2] /\ userId[r1] # NoUser
    /\ \E i \in Places(r1, "human") : \E j \in Places(r2, "ai") :
          i < j /\ List(r2)[j].calls = <<>>
    /\ \E i \in Places(r2, "human") : \E j \in Places(r1, "ai") :
          i < j /\ List(r1)[j].calls = <<>>

----------------------------------------------------------------------------
SystemPlaces(list) == {i \in 1..Len(list) : list[i].type = "system"}

(* C4: every existing session's history starts with a System message and    *)
(* holds exactly one; a list is created only for a user id without one.     *)
C4_OneSystemMessageFirst ==
    /\ \A u \in Users :
          user_messages[u] # NoList =>
              /\ Len(Stored(u)) > 0
              /\ SystemPlaces(Stored(u)) = {1}
    /\ \A r \in Req : messages[r] # NoList => SystemPlaces(List(r)) = {1}
    /\ allocated = Cardinality({u \in Users : user_messages[u] # NoList})

\* a second request of a user found the session of the first
C4_Witness ==
    \E r1, r2 \in Req :
        /\ r1 # r2 /\ userId[r1] = userId[r2]
        /\ pc[r1] = "done" /\ pc[r2] \in {"invoke", "tools", "done"}

----------------------------------------------------------------------------
(* C5: the loop never aborts on a capability failure: every handler the     *)
(* loop invoked returned a text that was appended as a ToolResult, whatever *)
(* the backend answered.                                                    *)
C5_NeverAbortsOnCapabilityFailure ==
    \A r \in Req :
        /\ pc[r] # "tool_error"
        /\ Len(ResultIds(r)) = Len(handled[r])

----------------------------------------------------------------------------
Current(r) == tool_calls[r][ti[r]]

\* request r takes a step of the for loop
LoopStep(r) == pc[r] = "tools" /\ (pc'[r] # "tools" \/ ti'[r] # ti[r])

(* C6: lookup is case-insensitive, and a request whose name is not in the   *)
(* registry is passed over: the handlers invoked are those of the requests  *)
(* gone through whose lower-cased name is registered; the step over an      *)
(* unregistered name runs no handler, appends nothing and moves on to the   *)
(* next request of the round, or to the next model invocation after the     *)
(* last.                                                                    *)
C6_UnknownNameSkipped ==
    /\ [](\A r \in Req : handled[r] = Ids(Registered(Processed(r)))
                         \o (IF pc[r] = "tool_error" THEN <<Current(r).id>> ELSE <<>>))
    /\ [][\A r \in Req :
            (LoopStep(r) /\ Lower(Current(r).name) \notin tool_dict_keys) =>
                /\ handled'[r] = handled[r]
                /\ heap' = heap
                /\ ti'[r] = ti[r] + 1
                /\ pc'[r] = IF ti[r] = Len(tool_calls[r]) THEN "invoke" ELSE "tools"
                /\ tool_calls'[r] = tool_calls[r]]_vars

\* a round's unregistered first request was passed over and its second,
\* named in upper case, was executed; the model is to be invoked next
C6_Witness ==
    /\ pc[1] = "invoke"
    /\ Len(tool_calls[1]) = 2
    /\ tool_calls[1][1].name = "find_clinic"
    /\ tool_calls[1][2].name = "GET_TEST_BY_ID"
    /\ handled[1] = <<tool_calls[1][2].id>>
    /\ ResultIds(1) = <<tool_calls[1][2].id>>

----------------------------------------------------------------------------
(* C7: every capability of the surface is resolvable: once a round is over, *)
(* each of its requests naming one of the six has a ToolResult.             *)
C7_SurfaceResolvable ==
    \A r \in Req :
        (pc[r] = "invoke" \/ Settled(r)) =>
            \A k \in 1..Len(Produced(r)) :
                Produced(r)[k].name \in SurfaceNames =>
                    \E i \in 1..Len(ResultIds(r)) : ResultIds(r)[i] = Produced(r)[k].id
----------------------------------------------------------------------------
(* hospital_search: the candidate pool and the ranking *)

Supplied(c) == ~Falsy(Tokens(c))
Pooled == s_pc = "filter"
\* a set was fetched for every supplied category (each had a 2xx answer)
EveryCategoryFetched ==
    /\ ~fetched_all
    /\ Len(hospital_sets) = Cardinality({c \in 1..3 : Supplied(c)})

\* C8: every hospital of the candidate pool belongs to the deduplicated
\* union fetched for every supplied category, empty unions included; two
\* categories whose fetched unions share no id give an empty pool.
C8_PoolWithinEveryCategory ==
    (Pooled /\ EveryCategoryFetched) =>
        \A c \in 1..3 : Supplied(c) => Range(hospitals) \subseteq fetched[c]

\* a pool that holds a hospital no fetch of a supplied category returned
C8_Witness ==
    /\ Pooled
    /\ Supplied(1) /\ Supplied(2)
    /\ EveryCategoryFetched
    /\ fetched[1] = {} /\ fetched[2] # {}
    /\ hospitals # <<>>

\* C9: the all-hospitals set is fetched as the pool exactly when no
\* category filter remains after normalization, whatever the categories'
\* fetches returned.
C9_AllFetchedIffNoCategoryRemains ==
    Pooled => (fetched_all <=> \A c \in 1..3 : ~Supplied(c))

\* a category remained, its fetch was answered with a non-2xx status, and
\* the pool is the all-hospitals set
C9_Witness ==
    /\ Pooled
    /\ Supplied(1) /\ ~Supplied(2) /\ ~Supplied(3)
    /\ fetched_all
    /\ hospitals # <<>>

\* the surviving records in the order in which the backends returned them
HospitalIdsOf(q) == [i \in 1..Len(q) |-> q[i].id]
RatedAs(h) == CHOOSE x \in Range(filtered) : x.id = h
InFetchOrder ==
    LET ids == SelectSeq(fetch_order,
                         LAMBDA h : h \in Range(HospitalIdsOf(filtered)))
    IN  [i \in 1..Len(ids) |-> RatedAs(ids[i])]

\* C10: the output is the surviving records by descending mean rating,
\* records of equal mean in their fetch order, cut to the first top_n.
C10_RankedStableInFetchOrder ==
    s_pc = "returned" =>
        HospitalIdsOf(filtered_sorted)
            = HospitalIdsOf(Take(Sorted(InFetchOrder), top_n))

\* three records with means 3, 5, 3 in pool order, all returned
C10_Witness ==
    /\ s_pc = "returned"
    /\ Len(filtered_sorted) = 3
    /\ \E i \in 1..3 : filtered[i].ratings = <<5>>
    /\ \E i, j \in 1..3 : i # j /\ filtered[i].ratings = <<>>
                          /\ filtered[j].ratings = <<>>
----------------------------------------------------------------------------
(* The capabilities' error strings *)

Invoked == t_result # NoResult
ByName == /\ t_call.tool \in ByHospitalTools
          /\ t_call.args.hospitalId = NoId
          /\ t_call.args.hospitalName # NoName

\* the hospital list was fetched (2xx, a JSON list) and one of its names
\* scores at least 80 against the name asked for
ListFetched == /\ t_call.b1.conn /\ Success(t_call.b1.status)
               /\ t_call.b1.body \in {"list", "empty"}
SomeNameMatches ==
    \E i \in 1..Len(Hospitals(t_call.b1)) :
        RatioAtLeast(t_call.args.hospitalName, Hospitals(t_call.b1)[i].name,
                     FuzzyThreshold)

\* the answers of the backend calls the invocation made
CallsMade ==
    IF t_call.tool \notin ByHospitalTools THEN {t_call.b1}
    ELSE IF t_call.args = NoArgs THEN {}
    ELSE IF t_call.args.hospitalId # NoId THEN {t_call.b2}
    ELSE IF ListFetched /\ SomeNameMatches THEN {t_call.b1, t_call.b2}
    ELSE {t_call.b1}

ErrorStrings ==
    {"Error: status", "Error: Either hospitalId or hospitalName must be provided",
     "Error: No hospital found matching", "Error: str(e)",
     "Error: Failed to fetch hospitals list. Status",
     "Error: Failed to fetch feedbacks. Status"}

\* C11: whenever a backend call of a capability returns a non-success
\* status, the capability returns an error string ("Error: <status>" for
\* get_test_by_id and get_tests_by_type) and raises nothing; hospital_search's
\* all-hospitals fetch included.
C11_NonSuccessGivesErrorString ==
    (Invoked /\ \E b \in CallsMade : b.conn /\ ~Success(b.status)) =>
        /\ ~t_result.raised
        /\ t_result.kind \in ErrorStrings
        /\ t_call.tool \in {"get_test_by_id", "get_tests_by_type"} =>
               t_result = Text("Error: status", t_call.b1.status)

\* get_test_by_id answered with 404 has returned "Error: 404"
C11_Witness ==
    /\ Invoked
    /\ t_call.tool = "get_test_by_id"
    /\ t_call.b1.conn /\ ~Success(t_call.b1.status)
    /\ t_result = Text("Error: status", 404)

\* C12: get_tests_by_hospital_name_or_id and get_hospital_feedbacks invoked
\* with neither hospitalId nor hospitalName return an error string and do
\* not raise.
C12_NeitherArgumentGivesErrorString ==
    (Invoked /\ t_call.tool \in ByHospitalTools /\ t_call.args = NoArgs) =>
        /\ ~t_result.raised
        /\ t_result.kind = "Error: Either hospitalId or hospitalName must be provided"

\* each of the two capabilities was invoked with no argument while the
\* backends were unreachable
C12_Witness ==
    /\ Invoked
    /\ t_call.tool = "get_hospital_feedbacks"
    /\ t_call.args = NoArgs
    /\ ~t_call.b1.conn /\ ~t_call.b2.conn

\* C13: with hospitalName only, if no hospital of the fetched list (an empty
\* list included) scores at least 80 against the name, the capability
\* returns the "no hospital found matching" error string, does not raise
\* and makes no second fetch (the string carries no status).
C13_NoMatchGivesErrorString ==
    (Invoked /\ ByName /\ ListFetched /\ ~SomeNameMatches) =>
        t_result = Text("Error: No hospital found matching", 0)

\* the name matches none of the hospitals of a fetched list that is not
\* empty, and the capability said so
C13_Witness ==
    /\ Invoked /\ ByName /\ ListFetched /\ ~SomeNameMatches
    /\ Hospitals(t_call.b1) # <<>>
    /\ t_result = Text("Error: No hospital found matching", 0)
----------------------------------------------------------------------------
(* hospital_search: the feedback stage and the scalar filters *)

Rating == s_pc \in {"rate", "returned"}
Survivors ==
    SelectSeq(hospitals, LAMBDA h : hospital_filter(h, icu_min, zone_id))

\* C14: a feedback fetch that fails (non-success status or an exception)
\* neither fails the search nor removes the record: the record has an empty
\* rating list and mean 0, like a record without ratings, and every record
\* is rated, sorted and returned.
C14_FailedFeedbackDegrades ==
    /\ feedback_failed # {} => Rating
    /\ Rating =>
        /\ HospitalIdsOf(filtered) = Survivors
        /\ \A i \in 1..Len(filtered) :
              /\ filtered[i].id \in feedback_failed =>
                     /\ filtered[i].ratings = <<>>
                     /\ filtered[i].averageRating = [num |-> 0, den |-> 1]
                     /\ filtered[i] = Rated(filtered[i].id, FeedbackOk(<<>>).ratings)
              /\ filtered[i].averageRating = averageRating(filtered[i].ratings)
    /\ s_pc = "returned" =>
        /\ fi = Len(filtered) + 1
        /\ filtered_sorted = Take(Sorted(filtered), top_n)

\* the search has returned two or more records, one whose feedback fetch
\* failed and, after it in the pool, one with ratings
C14_Witness ==
    /\ s_pc = "returned"
    /\ Len(filtered) >= 2
    /\ Len(filtered_sorted) = Len(filtered)
    /\ filtered[1].id \in feedback_failed
    /\ filtered[2].ratings = <<5>>
    /\ filtered_sorted[1] = filtered[2]
    /\ filtered[1] \in Range(filtered_sorted)
----------------------------------------------------------------------------
(* The loop's rounds *)

\* C15: the loop has no bound on its rounds.  The request is past the loop
\* exactly when the model has returned a response without capability
\* requests, and then it completes; a response that carries requests sends
\* the loop into another round whatever the number of rounds so far, and
\* every round leaves one more assistant message in the history.
C15_UnboundedRounds ==
    /\ [](Settled(1) <=> PlainResponses(1) # {})
    /\ (PlainResponses(1) # {}) ~> (pc[1] = "done")
    /\ [](Len(MessagesOf(1, "ai"))
            = invoked[1] - (IF pc[1] = "model_error" THEN 1 ELSE 0))
    /\ [][/\ (pc[1] = "invoke" /\ pc'[1] \notin {"invoke", "model_error"}) =>
               /\ pc'[1] = (IF tool_calls'[1] # <<>> THEN "tools" ELSE "acquire2")
               /\ Len(List(1))' = Len(List(1)) + 1
          /\ (pc[1] = "tools" /\ pc'[1] \notin {"tools", "tool_error"}) =>
               pc'[1] = "invoke"]_vars

\* the model has requested a capability in each of MaxCalls responses and is
\* about to be invoked again
C15_Witness ==
    /\ pc[1] = "invoke"
    /\ invoked[1] = MaxCalls
    /\ PlainResponses(1) = {}
    /\ Len(MessagesOf(1, "ai")) = MaxCalls
----------------------------------------------------------------------------
(* The stored history *)

History(u) == IF user_messages[u] = NoList THEN <<>> ELSE Stored(u)
IsPrefix(p, q) == Len(p) <= Len(q) /\ SubSeq(q, 1, Len(p)) = p

\* C16: a user's stored history is changed by appends only: after every
\* step of every request, in every interleaving, the history before the
\* step is a prefix of the history after it.
C16_AppendOnly ==
    [][\A u \in Users : IsPrefix(History(u), History(u)')]_vars

\* two requests of one user have both written back and returned, and the
\* history holds the user message of each
C16_Witness ==
    \E r1, r2 \in Req :
        /\ r1 # r2 /\ userId[r1] = userId[r2]
        /\ pc[r1] = "done" /\ pc[r2] = "done"
        /\ Holds(History(userId[r1]), "human", r1, 0, <<>>)
        /\ Holds(History(userId[r1]), "human", r2, 0, <<>>)
        /\ History(userId[r1])[2].req = r1 /\ History(userId[r1])[3].req = r2
----------------------------------------------------------------------------
(* hospital_search: the scalar filters *)

\* C17: every hospital returned satisfies each supplied scalar filter: with
\* icu_min supplied its ICU count is known and at least icu_min, with
\* zone_id supplied (0 included) its zoneId equals zone_id.
C17_ReturnedSatisfyScalarFilters ==
    s_pc = "returned" =>
        \A i \in 1..Len(filtered_sorted) :
            LET h == filtered_sorted[i].id
            IN  /\ icu_min # NoneInt => (Icus(h) # NoneInt /\ Icus(h) >= icu_min)
                /\ zone_id # NoneInt => ZoneId(h) = zone_id

\* a search with zone_id 0 has returned a hospital
C17_Witness ==
    /\ s_pc = "returned"
    /\ zone_id = 0
    /\ filtered_sorted # <<>>

----------------------------------------------------------------------------
(* Requests in parallel: what a request returns *)

Failed(r) == pc[r] \in {"model_error", "tool_error"}
Bound(r) == messages[r] # NoList
\* the user message, the assistant messages of the invocations that
\* returned and the results of the capabilities that returned
KeptAll(r) ==
    LET list == Stored(userId[r])
        responses == invoked[r] - (IF pc[r] = "model_error" THEN 1 ELSE 0)
        results == Len(handled[r]) - (IF pc[r] = "tool_error" THEN 1 ELSE 0)
    IN  /\ Holds(list, "human", r, 0, <<>>)
        /\ \A n \in 1..responses : Holds(list, "ai", r, n, <<>>)
        /\ \A k \in 1..results :
              Holds(list, "tool", r, handled[r][k][2], handled[r][k])
C20_FailedRequestKeepsMessages ==
    \A r \in Req :
        /\ Failed(r) => KeptAll(r)
        /\ Bound(r) => messages[r] = user_messages[userId[r]]

\* a request failed in a capability after its assistant message, and a later
\* request of the same user has invoked the model on a list that holds the
\* failed request's messages
C20_Witness ==
    \E r1, r2 \in Req :
        /\ r1 # r2 /\ userId[r1] = userId[r2]
        /\ pc[r1] = "tool_error"
        /\ invoked[r2] >= 1
        /\ \E i \in Places(r1, "ai") : \E j \in Places(r2, "human") : i < j
        /\ Holds(List(r2), "human", r1, 0, <<>>)
        /\ Holds(List(r2), "ai", r1, 1, <<>>)
====
